---- MODULE Spec2Model ----
(***************************************************************************)
(* Model of oscar.apps.communication.utils.Dispatcher: the dispatch,       *)
(* rendering and audit pipeline for customer notifications.                *)
(*                                                                         *)
(* The effects of the call in progress (or of the last finished call) are  *)
(* kept in outbox / emailTable / eventTable / notifications / warned /     *)
(* trace, which hold what the call has added so far; they are emptied when *)
(* control is back with the caller.  Alert statuses persist between calls. *)
(* The mail transport (django.core.mail) accepts every message it is       *)
(* handed; the only exception raised inside the module is the              *)
(* NotImplementedError of send_text_message.                               *)
(***************************************************************************)
EXTENDS Integers, Sequences, FiniteSets, TLC

\* ---------------------------------------------------------------- bounds
NumAlerts == 3        \* rows of the ProductAlert table
MaxStock == 2         \* largest num_in_stock of a stock record
MaxStockRecords == 2  \* largest number of stock records of a product

\* ------------------------------------------------------------ value sets
\* None in an integer column or attribute
None == -1

\* Strings whose only relevant property is emptiness
Str == {"", "x"}

\* str.strip() on the modelled strings
Strip(t) == IF t = " " THEN "" ELSE t

\* Python truthiness of a string
Truthy(t) == t # ""

Bundles == [subject : Str, body : Str, html : Str, sms : Str]

NoUser == [id |-> 0, email |-> "", is_authenticated |-> FALSE]
\* model instances of the user table: is_authenticated is always True
UserWithEmail == [id |-> 1, email |-> "u@x", is_authenticated |-> TRUE]
UserNoEmail == [id |-> 2, email |-> "", is_authenticated |-> TRUE]
DbUsers == {UserWithEmail, UserNoEmail}
\* any object accepted by dispatch_user_messages
Users == DbUsers \cup {[id |-> 3, email |-> "v@x", is_authenticated |-> FALSE]}

Orders == [number : {7}, is_anonymous : {TRUE}, guest_email : {"", "g@x"}, user : {NoUser}]
          \cup [number : {8}, is_anonymous : {FALSE}, guest_email : {""}, user : DbUsers]

\* **kwargs of dispatch_order_messages: email_address absent, empty or set
EmptyDict == [k \in {} |-> ""]
Kwargs == {EmptyDict} \cup {[k \in {"email_address"} |-> e] : e \in {"", "k@x"}}

ORDER_PLACED_EVENT_CODE == "ORDER_PLACED"
PRODUCT_ALERT_EVENT_CODE == "PRODUCT_ALERT"
PRODUCT_ALERT_CONFIRMATION_EVENT_CODE == "PRODUCT_ALERT_CONFIRMATION"
EventCodes == {ORDER_PLACED_EVENT_CODE, "CUSTOM"}
\* the CommunicationEventType table: empty, or holding the order-placed type
TypeTables == {{}, {ORDER_PLACED_EVENT_CODE}}
\* event_type = None after CommunicationEventType.DoesNotExist
DoesNotExist == "None"

\* settings.OSCAR_SAVE_SENT_EMAILS_TO_DB: unset, True or False
SaveSettings == {"unset", "True", "False"}
\* getattr(settings, 'OSCAR_SAVE_SENT_EMAILS_TO_DB', True)
SaveSentEmails(save) == IF save = "unset" THEN TRUE ELSE save = "True"

\* What the legacy templates (customer/alerts/emails/*.txt) and the templates
\* of the event types render to: distinct tokens, so that a bundle shows
\* which templates it was built from.
LegacyText == {"", " ", "l"}
CurrentText == {"", "c"}
CurrentBundles == [subject : CurrentText, body : CurrentText,
                   html : CurrentText, sms : CurrentText]
\* which of the two legacy templates exist
LegacyTemplates == [subject : BOOLEAN, body : BOOLEAN]
\* what the templates that are read render to: the legacy pair when both
\* exist, else the event type's
Renderings(legacy) ==
    IF legacy.subject /\ legacy.body
    THEN [raw_subject : LegacyText, raw_body : LegacyText,
          current : {[subject |-> "", body |-> "", html |-> "", sms |-> ""]}]
    ELSE [raw_subject : {""}, raw_body : {""}, current : CurrentBundles]

\* ------------------------------------------------------- catalogue rows
\* ProductAlert rows: alert a is for a registered user with an email address,
\* for a guest, or for a registered user without an email address.
AlertIds == 1..NumAlerts
AlertRow(a) ==
    [id |-> a,
     product_id |-> IF a % 4 = 0 THEN 3 ELSE IF a % 2 = 0 THEN 1 ELSE 2,
     user |-> IF a % 3 = 1 THEN UserWithEmail
              ELSE IF a % 3 = 2 THEN NoUser ELSE UserNoEmail,
     email |-> IF a % 3 = 2 THEN "a@x" ELSE ""]

\* product 1 is a parent (or stand-alone) product, product 2 its child
StockLevels == {None} \cup 0..MaxStock
StockRecordSeqs == UNION {[1..n -> StockLevels] : n \in 0..MaxStockRecords}
Products == [id : {1}, parent_id : {None}] \cup [id : {2}, parent_id : {1}]

\* ------------------------------------------------- effects of one call
\* s.exc is the exception in flight ("none" when there is none).
NoEffects == [outbox |-> <<>>, emailTable |-> <<>>, eventTable |-> <<>>,
              notifications |-> <<>>, warned |-> 0, trace |-> <<>>, exc |-> "none"]

\* a method is entered, or a collaborator is called
Enter(s, name) == [s EXCEPT !.trace = Append(@, name)]

NoneVal == [type |-> "None"]
Tuple(a, b) == [type |-> "tuple", items |-> <<a, b>>]

\* dict.__setitem__ on a dict modelled as a function
SetItem(d, k, v) == [x \in DOMAIN d \cup {k} |-> IF x = k THEN v ELSE d[x]]

send_email_messages(s, recipient_email, messages) ==
    LET email == [type |-> IF Truthy(messages.html)
                           THEN "EmailMultiAlternatives" ELSE "EmailMessage",
                  subject |-> messages.subject,
                  body |-> messages.body,
                  to |-> recipient_email,
                  alternative |-> messages.html]
    IN  [st |-> [Enter(s, "send_email_messages") EXCEPT !.outbox = Append(@, email)],
         ret |-> email]

send_text_message(s, user, event_type) ==
    [st |-> [Enter(s, "send_text_message") EXCEPT !.exc = "NotImplementedError"],
     ret |-> NoneVal]

\* the record is written whether or not the user is signed in
create_customer_email_NoAuthCheck(s, user, messages, email) ==
    LET s0 == Enter(s, "create_customer_email")
    IN  IF email.type # "None"
        THEN [s0 EXCEPT !.trace = Append(@, "Email.create"),
                        !.emailTable = Append(@, [user |-> user.id,
                                                  email |-> user.email,
                                                  subject |-> email.subject,
                                                  body_text |-> email.body,
                                                  body_html |-> messages.html])]
        ELSE s0

create_customer_email(s, user, messages, email) ==
    LET s0 == Enter(s, "create_customer_email")
    IN  \* an EmailMessage object is truthy
        IF email.type # "None" /\ user.is_authenticated
        THEN [s0 EXCEPT !.trace = Append(@, "Email.create"),
                        !.emailTable = Append(@, [user |-> user.id,
                                                  email |-> user.email,
                                                  subject |-> email.subject,
                                                  body_text |-> email.body,
                                                  body_html |-> messages.html])]
        ELSE s0

send_user_email_messages(s, user, messages, save) ==
    LET s0 == Enter(s, "send_user_email_messages")
        r == send_email_messages(s0, user.email, messages)
    IN  IF ~Truthy(user.email)
        THEN [st |-> Enter(s0, "logger.warning"), ret |-> Tuple(NoneVal, NoneVal)]
        ELSE IF SaveSentEmails(save)
             THEN [st |-> create_customer_email(r.st, user, messages, r.ret),
                   ret |-> r.ret]
             ELSE r

dispatch_direct_messages(s, recipient_email, messages) ==
    LET s0 == Enter(s, "dispatch_direct_messages")
    IN  IF Truthy(messages.subject) /\ (Truthy(messages.body) \/ Truthy(messages.html))
        THEN send_email_messages(s0, recipient_email, messages)
        ELSE [st |-> s0, ret |-> NoneVal]

dispatch_anonymous_messages(s, email, messages) ==
    LET s0 == Enter(s, "dispatch_anonymous_messages")
        r == send_email_messages(s0, email, messages)
    IN  IF Truthy(email)
        THEN [st |-> r.st, ret |-> SetItem(EmptyDict, "email", Tuple(r.ret, NoneVal))]
        ELSE [st |-> s0, ret |-> EmptyDict]

\* the SMS step does not look at the sms text
dispatch_user_messages_SmsAlways(s, user, messages, save) ==
    LET s0 == Enter(s, "dispatch_user_messages")
        gate == Truthy(messages.subject) /\ (Truthy(messages.body) \/ Truthy(messages.html))
        r1 == send_user_email_messages(s0, user, messages, save)
        s1 == IF gate THEN r1.st ELSE s0
        d1 == IF gate THEN SetItem(EmptyDict, "email", r1.ret) ELSE EmptyDict
        r2 == send_text_message(s1, user, messages.sms)
    IN  [st |-> r2.st, ret |-> SetItem(d1, "sms", r2.ret)]

\* the SMS step comes before the email step
dispatch_user_messages_SmsFirst(s, user, messages, save) ==
    LET s0 == Enter(s, "dispatch_user_messages")
        gate == Truthy(messages.subject) /\ (Truthy(messages.body) \/ Truthy(messages.html))
        r2 == send_text_message(s0, user, messages.sms)
        r1 == send_user_email_messages(s0, user, messages, save)
    IN  IF Truthy(messages.sms)
        THEN [st |-> r2.st, ret |-> SetItem(EmptyDict, "sms", r2.ret)]
        ELSE IF gate
             THEN [st |-> r1.st, ret |-> SetItem(EmptyDict, "email", r1.ret)]
             ELSE [st |-> s0, ret |-> EmptyDict]

dispatch_user_messages(s, user, messages, save) ==
    LET s0 == Enter(s, "dispatch_user_messages")
        gate == Truthy(messages.subject) /\ (Truthy(messages.body) \/ Truthy(messages.html))
        r1 == send_user_email_messages(s0, user, messages, save)
        s1 == IF gate THEN r1.st ELSE s0
        d1 == IF gate THEN SetItem(EmptyDict, "email", r1.ret) ELSE EmptyDict
        r2 == send_text_message(s1, user, messages.sms)
    IN  IF Truthy(messages.sms)
        THEN [st |-> r2.st, ret |-> SetItem(d1, "sms", r2.ret)]
        ELSE [st |-> s1, ret |-> d1]

create_communication_event(s, order, event_type, dispatched_messages) ==
    LET s0 == Enter(s, "create_communication_event")
    IN  \* a dict is truthy when it has a key
        IF DOMAIN dispatched_messages # {} /\ event_type # DoesNotExist
        THEN [s0 EXCEPT !.trace = Append(@, "CommunicationEvent.create"),
                        !.eventTable = Append(@, [order |-> order.number,
                                                  event_type |-> event_type])]
        ELSE s0

\* the branch looks at the guest email instead of is_anonymous
dispatch_order_messages_ByGuestEmail(s, order, messages, event_code, kwargs, types, save) ==
    LET s0 == Enter(s, "dispatch_order_messages")
        email == IF "email_address" \in DOMAIN kwargs
                 THEN kwargs["email_address"] ELSE order.guest_email
        r == IF Truthy(order.guest_email)
             THEN dispatch_anonymous_messages(s0, email, messages)
             ELSE dispatch_user_messages(s0, order.user, messages, save)
        event_type == IF event_code \in types THEN event_code ELSE DoesNotExist
    IN  IF r.st.exc # "none" THEN r.st
        ELSE create_communication_event(r.st, order, event_type, r.ret)

\* types: the codes for which a CommunicationEventType row exists
dispatch_order_messages(s, order, messages, event_code, kwargs, types, save) ==
    LET s0 == Enter(s, "dispatch_order_messages")
        email == IF "email_address" \in DOMAIN kwargs
                 THEN kwargs["email_address"] ELSE order.guest_email
        r == IF order.is_anonymous
             THEN dispatch_anonymous_messages(s0, email, messages)
             ELSE dispatch_user_messages(s0, order.user, messages, save)
        event_type == IF event_code \in types THEN event_code ELSE DoesNotExist
    IN  IF r.st.exc # "none" THEN r.st
        ELSE create_communication_event(r.st, order, event_type, r.ret)

\* --------------------------------------------------- product alert helpers
notify_user_about_product_alert(s, user, context) ==
    [s EXCEPT !.trace = Append(@, "notify_user"),
              !.notifications = Append(@, [recipient |-> user.id,
                                           alert |-> context.alert,
                                           hurry |-> context.hurry])]

\* the bundle the event type renders to is the input current
get_messages(s, event_code, current) ==
    [st |-> Enter(s, "get_messages:" \o event_code), ret |-> current]

\* the warning is emitted as soon as the legacy subject template is found
product_alert_messages_WarnEarly(s, legacy, raw_subject, raw_body, current) ==
    LET s1 == Enter(s, "get_template:alert_subject")
        w == [Enter(s1, "warnings.warn") EXCEPT !.warned = @ + 1]
        s2 == Enter(w, "get_template:alert_body")
    IN  IF ~legacy.subject
        THEN get_messages(s1, PRODUCT_ALERT_EVENT_CODE, current)
        ELSE IF ~legacy.body
        THEN get_messages(s2, PRODUCT_ALERT_EVENT_CODE, current)
        ELSE [st |-> s2,
              ret |-> [subject |-> Strip(raw_subject), body |-> raw_body,
                       html |-> "", sms |-> ""]]

\* lines 270-296: the legacy templates if both exist, else the event type's.
\* raw_subject and raw_body are what the legacy templates render to.
product_alert_messages(s, legacy, raw_subject, raw_body, current) ==
    LET s1 == Enter(s, "get_template:alert_subject")
        s2 == Enter(s1, "get_template:alert_body")
    IN  IF ~legacy.subject
        THEN get_messages(s1, PRODUCT_ALERT_EVENT_CODE, current)
        ELSE IF ~legacy.body
        THEN get_messages(s2, PRODUCT_ALERT_EVENT_CODE, current)
        ELSE [st |-> [Enter(s2, "warnings.warn") EXCEPT !.warned = @ + 1],
              ret |-> [subject |-> Strip(raw_subject), body |-> raw_body,
                       html |-> "", sms |-> ""]]

\* lines 322-347
confirmation_messages(s, legacy, raw_subject, raw_body, current) ==
    LET s1 == Enter(s, "get_template:confirmation_subject")
        s2 == Enter(s1, "get_template:confirmation_body")
    IN  IF ~legacy.subject
        THEN get_messages(s1, PRODUCT_ALERT_CONFIRMATION_EVENT_CODE, current)
        ELSE IF ~legacy.body
        THEN get_messages(s2, PRODUCT_ALERT_CONFIRMATION_EVENT_CODE, current)
        ELSE [st |-> [Enter(s2, "warnings.warn") EXCEPT !.warned = @ + 1],
              ret |-> [subject |-> Strip(raw_subject), body |-> raw_body,
                       html |-> "", sms |-> ""]]

\* the result also carries the local variable messages
\* and t what the templates render to
send_product_alert_confirmation_email_for_user(s, alert, legacy, t) ==
    LET s0 == Enter(s, "send_product_alert_confirmation_email_for_user")
        r == confirmation_messages(s0, legacy, t.raw_subject, t.raw_body, t.current)
    IN  [st |-> dispatch_direct_messages(r.st, alert.email, r.ret).st,
         messages |-> r.ret]

\* a set of primary keys in ascending order
RECURSIVE SeqOfSet(_)
SeqOfSet(S) ==
    IF S = {} THEN <<>>
    ELSE LET m == CHOOSE x \in S : \A y \in S : x <= y
         IN  <<m>> \o SeqOfSet(S \ {m})

\* ProductAlert.objects.filter(product_id__in=(product.id, product.parent_id),
\*                             status=ProductAlert.ACTIVE)
ActiveAlerts(product, status) ==
    SeqOfSet({a \in AlertIds : /\ AlertRow(a).product_id \in {product.id, product.parent_id}
                               /\ status[a] = "Active"})

\* aggregate(Max('num_in_stock')): NULLs are ignored, None if nothing is left
RECURSIVE MaxInStock(_)
MaxInStock(records) ==
    IF records = <<>> THEN None
    ELSE LET rest == MaxInStock(Tail(records))
             h == Head(records)
         IN  IF h = None THEN rest
             ELSE IF rest = None THEN h
             ELSE IF h > rest THEN h ELSE rest

\* lines 238-242
NumInStock(records) ==
    IF Len(records) = 1 THEN records[1] ELSE MaxInStock(records)

\* the comparison is not strict
HurryMode_AtLeast(num_in_stock, count) ==
    num_in_stock # None /\ count >= num_in_stock

\* line 245
HurryMode(num_in_stock, count) ==
    num_in_stock # None /\ count > num_in_stock

\* alert.close() sits inside the if of line 298
AlertIteration_CloseIfQueued(loc, row, is_available_to_buy, hurry, legacy, t) ==
    LET s0 == Enter(loc.fx, "fetch_for_product")
        ctx == [alert |-> row.id, hurry |-> hurry]
        has_user == row.user.id # 0
        s1 == IF has_user THEN notify_user_about_product_alert(s0, row.user, ctx) ELSE s0
        r == product_alert_messages(s1, legacy, t.raw_subject, t.raw_body, t.current)
        queued == Truthy(r.ret.body)
    IN  IF ~is_available_to_buy
        THEN [loc EXCEPT !.fx = s0]
        ELSE [fx |-> IF queued THEN Enter(r.st, "alert.close") ELSE r.st,
              available |-> loc.available \cup {row.id},
              extra_context |-> ctx,
              num_notifications |-> IF has_user THEN loc.num_notifications + 1
                                    ELSE loc.num_notifications,
              messages |-> r.ret,
              user_messages_to_send |->
                  IF queued /\ has_user
                  THEN Append(loc.user_messages_to_send,
                              [user |-> row.user, messages |-> r.ret])
                  ELSE loc.user_messages_to_send,
              messages_to_send |->
                  IF queued /\ ~has_user
                  THEN Append(loc.messages_to_send,
                              [recipient |-> row.email, messages |-> r.ret])
                  ELSE loc.messages_to_send,
              status |-> IF queued THEN [loc.status EXCEPT ![row.id] = "Closed"]
                         ELSE loc.status]

\* lines 252-303: the body of the loop for one alert.  loc holds what the
\* loop carries from one iteration to the next, t what the templates render to.
AlertIteration(loc, row, is_available_to_buy, hurry, legacy, t) ==
    LET s0 == Enter(loc.fx, "fetch_for_product")
        ctx == [alert |-> row.id, hurry |-> hurry]
        has_user == row.user.id # 0
        s1 == IF has_user THEN notify_user_about_product_alert(s0, row.user, ctx) ELSE s0
        r == product_alert_messages(s1, legacy, t.raw_subject, t.raw_body, t.current)
        queued == Truthy(r.ret.body)
    IN  IF ~is_available_to_buy
        THEN [loc EXCEPT !.fx = s0]
        ELSE [fx |-> Enter(r.st, "alert.close"),
              available |-> loc.available \cup {row.id},
              extra_context |-> ctx,
              num_notifications |-> IF has_user THEN loc.num_notifications + 1
                                    ELSE loc.num_notifications,
              messages |-> r.ret,
              user_messages_to_send |->
                  IF queued /\ has_user
                  THEN Append(loc.user_messages_to_send,
                              [user |-> row.user, messages |-> r.ret])
                  ELSE loc.user_messages_to_send,
              messages_to_send |->
                  IF queued /\ ~has_user
                  THEN Append(loc.messages_to_send,
                              [recipient |-> row.email, messages |-> r.ret])
                  ELSE loc.messages_to_send,
              status |-> [loc.status EXCEPT ![row.id] = "Closed"]]

\* lines 306-307; an exception ends the loop
RECURSIVE dispatch_direct_queue(_, _)
dispatch_direct_queue(s, queue) ==
    IF queue = <<>> \/ s.exc # "none" THEN s
    ELSE dispatch_direct_queue(
             dispatch_direct_messages(s, Head(queue).recipient, Head(queue).messages).st,
             Tail(queue))

\* lines 308-309; an exception ends the loop
RECURSIVE dispatch_user_queue(_, _, _)
dispatch_user_queue(s, queue, save) ==
    IF queue = <<>> \/ s.exc # "none" THEN s
    ELSE dispatch_user_queue(
             dispatch_user_messages(s, Head(queue).user, Head(queue).messages, save).st,
             Tail(queue), save)

\* the user messages go out before the direct ones
SendQueued_UserFirst(s, direct, user, save) ==
    LET s1 == dispatch_user_queue(s, user, save)
        s2 == dispatch_direct_queue(s1, direct)
    IN  IF s2.exc # "none" THEN s2 ELSE Enter(s2, "logger.info")

\* lines 305-314
SendQueued(s, direct, user, save) ==
    LET s1 == dispatch_direct_queue(s, direct)
        s2 == dispatch_user_queue(s1, user, save)
    IN  IF s2.exc # "none" THEN s2 ELSE Enter(s2, "logger.info")

\* ------------------------------------------------------------------ state
VARIABLES pc, call, outcome,
          outbox, emailTable, eventTable, notifications, warned, trace,
          alertStatus,
          stockrecords, hurry_mode, alerts, alert, available, extra_context,
          messages, messages_to_send, user_messages_to_send, num_notifications

effects == <<outbox, emailTable, eventTable, notifications, warned, trace>>
locals == <<stockrecords, hurry_mode, alerts, alert, available, extra_context,
            messages, messages_to_send, user_messages_to_send, num_notifications>>
vars == <<pc, call, outcome, effects, alertStatus, locals>>

NoMessages == [subject |-> "", body |-> "", html |-> "", sms |-> ""]
NoContext == [alert |-> 0, hurry |-> FALSE]

\* the arguments of the call and what it reads from settings and tables
NoCall == [op |-> "none",
           order |-> [number |-> 0, is_anonymous |-> TRUE,
                      guest_email |-> "", user |-> NoUser],
           user |-> NoUser, recipient |-> "", messages |-> NoMessages,
           event_code |-> "", kwargs |-> EmptyDict, types |-> {}, save |-> "unset",
           product |-> [id |-> 0, parent_id |-> None],
           legacy |-> [subject |-> FALSE, body |-> FALSE],
           alert |-> 0, status0 |-> <<>>]

\* the effects of the call so far, as a record
Effects == [outbox |-> outbox, emailTable |-> emailTable, eventTable |-> eventTable,
            notifications |-> notifications, warned |-> warned, trace |-> trace,
            exc |-> "none"]

Commit(s) ==
    /\ outbox' = s.outbox
    /\ emailTable' = s.emailTable
    /\ eventTable' = s.eventTable
    /\ notifications' = s.notifications
    /\ warned' = s.warned
    /\ trace' = s.trace

\* the call ends: its exception, if any, reaches the caller
Finish(s) ==
    /\ Commit(s)
    /\ outcome' = IF s.exc = "none" THEN "returned" ELSE s.exc
    /\ pc' = "done"

DropLocals ==
    /\ stockrecords' = <<>>
    /\ hurry_mode' = FALSE
    /\ alerts' = <<>>
    /\ alert' = 0
    /\ available' = {}
    /\ extra_context' = NoContext
    /\ messages' = NoMessages
    /\ messages_to_send' = <<>>
    /\ user_messages_to_send' = <<>>
    /\ num_notifications' = 0

Init ==
    /\ pc = "idle"
    /\ call = NoCall
    /\ outcome = "none"
    /\ outbox = <<>>
    /\ emailTable = <<>>
    /\ eventTable = <<>>
    /\ notifications = <<>>
    /\ warned = 0
    /\ trace = <<>>
    /\ alertStatus = [a \in AlertIds |-> "Active"]
    /\ stockrecords = <<>>
    /\ hurry_mode = FALSE
    /\ alerts = <<>>
    /\ alert = 0
    /\ available = {}
    /\ extra_context = NoContext
    /\ messages = NoMessages
    /\ messages_to_send = <<>>
    /\ user_messages_to_send = <<>>
    /\ num_notifications = 0

DispatchDirectMessages ==
    /\ pc = "idle"
    /\ \E recipient \in {"", "d@x"}, msgs \in Bundles :
          /\ call' = [NoCall EXCEPT !.op = "dispatch_direct_messages",
                                    !.recipient = recipient, !.messages = msgs]
          /\ Finish(dispatch_direct_messages(NoEffects, recipient, msgs).st)
    /\ UNCHANGED <<alertStatus, locals>>

DispatchUserMessages ==
    /\ pc = "idle"
    /\ \E user \in Users, msgs \in Bundles, save \in SaveSettings :
          /\ call' = [NoCall EXCEPT !.op = "dispatch_user_messages",
                                    !.user = user, !.messages = msgs, !.save = save]
          /\ Finish(dispatch_user_messages(NoEffects, user, msgs, save).st)
    /\ UNCHANGED <<alertStatus, locals>>

DispatchOrderMessages ==
    /\ pc = "idle"
    /\ \E order \in Orders, msgs \in Bundles, event_code \in EventCodes,
          kwargs \in Kwargs, types \in TypeTables, save \in SaveSettings :
          /\ call' = [NoCall EXCEPT !.op = "dispatch_order_messages",
                                    !.order = order, !.user = order.user,
                                    !.messages = msgs, !.event_code = event_code,
                                    !.kwargs = kwargs, !.types = types, !.save = save]
          /\ Finish(dispatch_order_messages(NoEffects, order, msgs, event_code,
                                            kwargs, types, save))
    /\ UNCHANGED <<alertStatus, locals>>

SendProductAlertConfirmation ==
    /\ pc = "idle"
    /\ \E a \in AlertIds, legacy \in LegacyTemplates :
       \E t \in Renderings(legacy) :
          LET r == send_product_alert_confirmation_email_for_user(
                       NoEffects, AlertRow(a), legacy, t)
          IN  /\ call' = [NoCall EXCEPT
                            !.op = "send_product_alert_confirmation_email_for_user",
                            !.alert = a, !.legacy = legacy]
              /\ messages' = r.messages
              /\ Finish(r.st)
    /\ UNCHANGED <<alertStatus, stockrecords, hurry_mode, alerts, alert, available,
                   extra_context, messages_to_send, user_messages_to_send,
                   num_notifications>>

\* send_product_alert_email_for_user, lines 226-245: up to the hurry mode
SendProductAlertStart ==
    /\ pc = "idle"
    /\ \E product \in Products, records \in StockRecordSeqs,
          legacy \in LegacyTemplates :
          /\ call' = [NoCall EXCEPT !.op = "send_product_alert_email_for_user",
                                    !.product = product, !.legacy = legacy,
                                    !.status0 = alertStatus]
          /\ IF Len(records) = 0
             THEN /\ Finish(Enter(NoEffects, "send_product_alert_email_for_user"))
                  /\ UNCHANGED <<stockrecords, hurry_mode>>
             ELSE /\ Commit(Enter(Enter(NoEffects, "send_product_alert_email_for_user"),
                                  "logger.info"))
                  /\ stockrecords' = records
                  /\ hurry_mode' = HurryMode(NumInStock(records),
                                             Len(ActiveAlerts(product, alertStatus)))
                  /\ outcome' = "none"
                  /\ pc' = "hurry"
    /\ UNCHANGED <<alertStatus, alerts, alert, available, extra_context, messages,
                   messages_to_send, user_messages_to_send, num_notifications>>

\* lines 247-251: the queues are set up and the alerts are fetched;
\* stockrecords is not read again
SendProductAlertBeginLoop ==
    /\ pc = "hurry"
    /\ messages_to_send' = <<>>
    /\ user_messages_to_send' = <<>>
    /\ num_notifications' = 0
    /\ alerts' = ActiveAlerts(call.product, alertStatus)
    /\ stockrecords' = <<>>
    /\ pc' = "loop"
    /\ UNCHANGED <<call, outcome, effects, alertStatus, hurry_mode, alert, available,
                   extra_context, messages>>

\* lines 251-303: one iteration of the loop over the alerts
SendProductAlertLoop ==
    /\ pc = "loop"
    /\ alerts # <<>>
    /\ alert' = Head(alerts)
    /\ alerts' = Tail(alerts)
    /\ \E is_available_to_buy \in BOOLEAN :
       \E t \in IF is_available_to_buy THEN Renderings(call.legacy)
                 ELSE {[raw_subject |-> "", raw_body |-> "", current |-> NoMessages]} :
          LET loc == [fx |-> Effects, available |-> available,
                      extra_context |-> extra_context,
                      num_notifications |-> num_notifications,
                      messages |-> messages,
                      user_messages_to_send |-> user_messages_to_send,
                      messages_to_send |-> messages_to_send,
                      status |-> alertStatus]
              n == AlertIteration(loc, AlertRow(alert'), is_available_to_buy,
                                  hurry_mode, call.legacy, t)
          IN  /\ Commit(n.fx)
              /\ available' = n.available
              /\ extra_context' = n.extra_context
              /\ num_notifications' = n.num_notifications
              /\ messages' = n.messages
              /\ user_messages_to_send' = n.user_messages_to_send
              /\ messages_to_send' = n.messages_to_send
              /\ alertStatus' = n.status
    /\ UNCHANGED <<pc, call, outcome, stockrecords, hurry_mode>>

\* lines 305-314: the loop is over, the queued messages are dispatched
SendProductAlertDispatch ==
    /\ pc = "loop"
    /\ alerts = <<>>
    /\ \E save \in SaveSettings :
          /\ call' = [call EXCEPT !.save = save]
          /\ Finish(SendQueued(Effects, messages_to_send, user_messages_to_send, save))
    /\ UNCHANGED <<alertStatus, locals>>

\* control is back with the caller, which sees the outcome
Return ==
    /\ pc = "done"
    /\ pc' = "idle"
    /\ call' = NoCall
    /\ outcome' = "none"
    /\ Commit(NoEffects)
    /\ DropLocals
    /\ UNCHANGED alertStatus

Next ==
    \/ DispatchDirectMessages
    \/ DispatchUserMessages
    \/ DispatchOrderMessages
    \/ SendProductAlertConfirmation
    \/ SendProductAlertStart
    \/ SendProductAlertBeginLoop
    \/ SendProductAlertLoop
    \/ SendProductAlertDispatch
    \/ Return

Spec == Init /\ [][Next]_vars

\* ------------------------------------------------------------ properties
Has(seq, x) == \E i \in DOMAIN seq : seq[i] = x
Count(seq, x) == Cardinality({i \in DOMAIN seq : seq[i] = x})

FanOut == "send_product_alert_email_for_user"
Confirmation == "send_product_alert_confirmation_email_for_user"
Finished(op) == pc = "done" /\ call.op = op
EmailGate(m) == Truthy(m.subject) /\ (Truthy(m.body) \/ Truthy(m.html))

\* C1: when dispatch_order_messages returns, a CommunicationEvent of the order
\* has been created iff a channel sent a message during the call and a
\* CommunicationEventType with the event code exists.
C1_AuditIffDispatched ==
    (Finished("dispatch_order_messages") /\ outcome = "returned") =>
        ((\E i \in DOMAIN eventTable : eventTable[i].order = call.order.number)
            <=> (outbox # <<>> /\ call.event_code \in call.types))

\* C2: a bundle whose body and html are both empty is never handed to the mail
\* transport, whichever of dispatch_direct_messages, dispatch_user_messages
\* and dispatch_order_messages (guest or registered order) is called.
C2_NoEmailWithoutContent ==
    (/\ pc = "done"
     /\ call.op \in {"dispatch_direct_messages", "dispatch_user_messages",
                     "dispatch_order_messages"}
     /\ call.messages.body = ""
     /\ call.messages.html = "") => outbox = <<>>

\* C3: when send_product_alert_email_for_user returns normally, every alert
\* that was active for the product or its parent and passed the availability
\* check is closed, whether or not a message was queued or sent for it.
C3_ProcessedAlertsClosed ==
    (Finished(FanOut) /\ outcome = "returned") =>
        \A a \in AlertIds :
            (/\ call.status0[a] = "Active"
             /\ AlertRow(a).product_id \in {call.product.id, call.product.parent_id}
             /\ a \in available) => alertStatus[a] = "Closed"

\* a processed alert of a user without an email address: queued, nothing sent
C3_Witness ==
    /\ Finished(FanOut)
    /\ outcome = "returned"
    /\ available # {}
    /\ user_messages_to_send # <<>>
    /\ Has(trace, "logger.warning")
    /\ outbox = <<>>

\* C4: an Email record is created only for an authenticated user, right after
\* an email to that user's address was handed to the mail transport in the
\* same send_user_email_messages call, and only if OSCAR_SAVE_SENT_EMAILS_TO_DB
\* is not false; never for a user without an email address and never on the
\* guest or direct dispatch paths.
C4_EmailRecordOnlyAfterSend ==
    /\ Len(emailTable) = Count(trace, "Email.create")
    /\ \A j \in DOMAIN trace :
          trace[j] = "Email.create" =>
              /\ j > 3
              /\ trace[j - 1] = "create_customer_email"
              /\ trace[j - 2] = "send_email_messages"
              /\ trace[j - 3] = "send_user_email_messages"
    /\ \A i \in DOMAIN emailTable :
          /\ emailTable[i].email # ""
          /\ \A u \in Users : u.id = emailTable[i].user => u.is_authenticated
          /\ \E k \in DOMAIN outbox : /\ outbox[k].to = emailTable[i].email
                                      /\ outbox[k].subject = emailTable[i].subject
                                      /\ outbox[k].body = emailTable[i].body_text
    /\ emailTable # <<>> =>
          /\ SaveSentEmails(call.save)
          /\ call.op \notin {"dispatch_direct_messages", Confirmation}
          /\ call.op = "dispatch_order_messages" => ~call.order.is_anonymous

C4_Witness ==
    /\ Finished("dispatch_order_messages")
    /\ emailTable # <<>>
    /\ call.save = "unset"

\* the active alerts of the product or its parent when the call started
C5_ActiveCount ==
    Cardinality({a \in AlertIds :
                    /\ call.status0[a] = "Active"
                    /\ AlertRow(a).product_id \in {call.product.id, call.product.parent_id}})

\* C5: for a product with stock records, the hurry flag of every alert's
\* context is true iff the number of alerts that were active for the product
\* or its parent when the call started exceeds the largest num_in_stock of the
\* stock records; it is false when no stock level is known.
C5_HurryMode ==
    /\ [](pc = "hurry" =>
            (hurry_mode <=>
                /\ \E i \in DOMAIN stockrecords : stockrecords[i] # None
                /\ \A i \in DOMAIN stockrecords :
                      stockrecords[i] # None => C5_ActiveCount > stockrecords[i]))
    /\ []((call.op = FanOut /\ extra_context.alert # 0) =>
            /\ extra_context.hurry = hurry_mode
            /\ \A i \in DOMAIN notifications : notifications[i].hurry = hurry_mode)
    /\ [][(pc # "idle" /\ pc' # "idle") => hurry_mode' = hurry_mode]_vars

\* two stock records, one of unknown level, fewer items than alerts
C5_Witness ==
    /\ pc = "hurry"
    /\ hurry_mode
    /\ Len(stockrecords) = 2
    /\ Has(stockrecords, None)

\* C6: dispatch_order_messages takes only the guest path (to the supplied
\* email_address, else to order.guest_email) for an order without a user and
\* only the user path for an order with a user.
C6_GuestOrUserPath ==
    Finished("dispatch_order_messages") =>
        IF call.order.is_anonymous
        THEN /\ Has(trace, "dispatch_anonymous_messages")
             /\ \A i \in DOMAIN trace :
                   trace[i] \notin {"dispatch_user_messages", "send_user_email_messages",
                                    "send_text_message", "create_customer_email"}
             /\ \A k \in DOMAIN outbox :
                   outbox[k].to = IF "email_address" \in DOMAIN call.kwargs
                                  THEN call.kwargs["email_address"]
                                  ELSE call.order.guest_email
        ELSE /\ Has(trace, "dispatch_user_messages")
             /\ ~Has(trace, "dispatch_anonymous_messages")
             /\ \A k \in DOMAIN outbox : outbox[k].to = call.order.user.email

C6_Witness ==
    /\ Finished("dispatch_order_messages")
    /\ call.order.is_anonymous
    /\ call.order.guest_email = ""
    /\ outbox # <<>>
    /\ outbox[1].to = "k@x"

\* C7: dispatch_user_messages calls the SMS channel iff the sms text is not
\* empty; every call of the SMS channel ends the dispatch with
\* NotImplementedError; with an empty sms text the dispatch returns.
C7_SmsOnlyWithText ==
    (pc = "done" /\ (\/ call.op = "dispatch_user_messages"
                     \/ (call.op = "dispatch_order_messages" /\ ~call.order.is_anonymous))) =>
        /\ Has(trace, "send_text_message") <=> Truthy(call.messages.sms)
        /\ Has(trace, "send_text_message") =>
              /\ outcome = "NotImplementedError"
              /\ trace[Len(trace)] = "send_text_message"
        /\ ~Truthy(call.messages.sms) => outcome = "returned"

C7_Witness ==
    /\ Finished("dispatch_user_messages")
    /\ Truthy(call.messages.sms)
    /\ outcome = "NotImplementedError"
    /\ Count(trace, "send_text_message") = 1

\* C8: send_product_alert_email_for_user hands no email to the transport and
\* dispatches nothing while alerts are left to process, and afterwards every
\* queued direct message is dispatched before any queued user message.
C8_DispatchAfterLoopDirectFirst ==
    call.op = FanOut =>
        /\ (pc \in {"hurry", "loop"} \/ alerts # <<>>) =>
              /\ outbox = <<>>
              /\ ~Has(trace, "dispatch_direct_messages")
              /\ ~Has(trace, "dispatch_user_messages")
        /\ \A i, j \in DOMAIN trace :
              i < j =>
                 /\ ~(/\ trace[i] \in {"dispatch_direct_messages", "dispatch_user_messages",
                                       "send_email_messages"}
                      /\ trace[j] \in {"fetch_for_product", "notify_user", "alert.close"})
                 /\ ~(/\ trace[i] = "dispatch_user_messages"
                      /\ trace[j] = "dispatch_direct_messages")
        /\ pc = "done" /\ outcome = "returned" /\ Has(trace, "logger.info") =>
              /\ Count(trace, "dispatch_direct_messages") = Len(messages_to_send)
              /\ Count(trace, "dispatch_user_messages") = Len(user_messages_to_send)

\* the user's alert was processed first, the guest's email goes out first
C8_Witness ==
    /\ Finished(FanOut)
    /\ Len(outbox) >= 2
    /\ outbox[1].to = "a@x"
    /\ outbox[2].to = "u@x"
    /\ Len(notifications) >= 1
    /\ notifications[1].alert = 1

C9_Legacy(m) ==
    /\ m.subject \in {Strip(t) : t \in LegacyText}
    /\ m.body \in LegacyText
    /\ m.html = ""
    /\ m.sms = ""

\* n bundles were built for the event code
C9_Built(n, code) ==
    IF call.legacy.subject /\ call.legacy.body
    THEN /\ warned = n
         /\ ~Has(trace, "get_messages:" \o code)
         /\ n > 0 => C9_Legacy(messages)
         /\ \A i \in DOMAIN outbox : outbox[i].body \in LegacyText \ {""}
    ELSE /\ warned = 0
         /\ Count(trace, "get_messages:" \o code) = n
         /\ messages \in CurrentBundles
         /\ \A i \in DOMAIN outbox : outbox[i].body \in CurrentText

\* C9: the product alert send and the confirmation send build their messages
\* from the legacy templates, with one deprecation warning per bundle, when
\* the legacy subject and body templates both exist; when one is missing no
\* warning is emitted and the messages are those of the event type
\* PRODUCT_ALERT or PRODUCT_ALERT_CONFIRMATION.
C9_LegacyPreferred ==
    /\ call.op = FanOut =>
          C9_Built(Count(trace, "alert.close"), PRODUCT_ALERT_EVENT_CODE)
    /\ Finished(Confirmation) =>
          C9_Built(1, PRODUCT_ALERT_CONFIRMATION_EVENT_CODE)

\* the legacy body template is missing: the fallback is taken for two alerts
C9_Witness ==
    /\ Finished(FanOut)
    /\ call.legacy.subject
    /\ ~call.legacy.body
    /\ Count(trace, "get_messages:" \o PRODUCT_ALERT_EVENT_CODE) = 2
    /\ outbox # <<>>

C10_Case ==
    /\ Finished("dispatch_order_messages")
    /\ ~call.order.is_anonymous
    /\ Truthy(call.order.user.email)
    /\ EmailGate(call.messages)
    /\ Truthy(call.messages.sms)

\* C10: dispatch_order_messages for a registered user with an email address
\* and a bundle with subject, body or html, and sms text: the email is sent,
\* and the Email record written when enabled, before the SMS step raises; the
\* call ends in NotImplementedError and no CommunicationEvent is created.
C10_EmailSentThenSmsFails ==
    C10_Case =>
        /\ Len(outbox) = 1
        /\ outbox[1].to = call.order.user.email
        /\ Len(emailTable) = IF SaveSentEmails(call.save) THEN 1 ELSE 0
        /\ outcome = "NotImplementedError"
        /\ eventTable = <<>>
        /\ ~Has(trace, "create_communication_event")
        /\ \A i, j \in DOMAIN trace :
              (trace[i] \in {"send_email_messages", "Email.create"}
                 /\ trace[j] = "send_text_message") => i < j

C10_Witness ==
    /\ C10_Case
    /\ call.save = "True"
    /\ Len(emailTable) = 1
    /\ call.event_code \in call.types

====
